---- MODULE Spec2Model ----
(***************************************************************************)
(* Model of src/server.ts: one upstream live session shared by all         *)
(* WebSocket clients.  The registry `clients` (a JavaScript Set), the      *)
(* client message handler (socket.onmessage), the close/error handlers and *)
(* the upstream onmessage callback with its broadcast loop are modelled    *)
(* as reactions of a single-threaded event loop: every action is one       *)
(* handler run to completion.                                              *)
(***************************************************************************)
EXTENDS Integers, Sequences, FiniteSets, TLC

VARIABLES
    pc,          \* position of main(): "connect" -> "serve" -> "serving"
    session,     \* upstream session: "none", "open", "errored", "closed"
    nSessions,   \* number of ai.live.connect calls made so far
    clients,     \* the Set<WebSocket>, as its insertion-ordered element list
    readyState,  \* readyState of every socket ("NONE": not yet created)
    inbox,       \* per socket: the texts successfully handed to socket.send
    upstream,    \* the calls made on the session object, in order
    registered,  \* history: per socket, its last registry event
    event        \* history: the reaction that produced this state

vars == <<pc, session, nSessions, clients, readyState, inbox, upstream,
          registered, event>>

(***************************************************************************)
(* Bounds of the model.                                                    *)
(***************************************************************************)
\* Sockets, named in the order Deno.upgradeWebSocket creates them.
Sockets == <<"A", "B">>
\* Outputs the program may produce in one run: the longest list of texts
\* sent to one socket plus the number of calls on the upstream session.
MaxIO == 2

Range(s) == {s[i] : i \in 1..Len(s)}
Conn == Range(Sockets)
IndexOf(c) == CHOOSE i \in 1..Len(Sockets) : Sockets[i] = c

\* Inline media payloads the upstream service may deliver ("" is the empty
\* string, which JavaScript treats as falsy).
Payloads == {"X", "Y"}

(***************************************************************************)
(* JavaScript values.  An optional property is a sequence of length 0      *)
(* (undefined) or 1 (present).                                             *)
(***************************************************************************)
Undefined == <<>>
Some(v) == <<v>>
\* An object-valued property is truthy when present; a string-valued one
\* when present and not the empty string.
Present(opt) == opt # Undefined
TruthyString(opt) == opt # Undefined /\ opt[1] # ""

(***************************************************************************)
(* Set<WebSocket>: add, delete, has, with insertion-ordered iteration.     *)
(***************************************************************************)
SetHas(s, x) == \E i \in 1..Len(s) : s[i] = x

SetAdd(s, x) == IF SetHas(s, x) THEN s ELSE Append(s, x)

\* A delete that drops the most recently added element instead of x.
SetDelete_dropsLast(s, x) == IF s = <<>> THEN s ELSE SubSeq(s, 1, Len(s) - 1)

SetDelete(s, x) == SelectSeq(s, LAMBDA y : y # x)

(***************************************************************************)
(* createBlob and the envelope serialisation.                              *)
(***************************************************************************)
\* A blob tagged with the output rate instead of the input rate.
createBlob_outputRate(audioData) == [data |-> audioData, mimeType |-> "audio/pcm;rate=24000"]

createBlob(audioData) == [data |-> audioData, mimeType |-> "audio/pcm;rate=16000"]

\* JSON.stringify({type: 'audioStream', data: audioData}) for a string
\* audioData without characters that need escaping.
Envelope(audioData) == "{\"type\":\"audioStream\",\"data\":\"" \o audioData \o "\"}"

(***************************************************************************)
(* Client messages: the raw texts a client may send, and JSON.parse on     *)
(* them.  A parsed object keeps the three properties the handler reads.    *)
(***************************************************************************)
RawText == "{\"type\":\"contentUpdateText\",\"text\":\"hello\"}"
RawAudio == "{\"type\":\"realtimeInput\",\"audioData\":\"AAAA\"}"
RawOther == "{\"type\":\"ping\",\"text\":\"hello\"}"
RawNoType == "{\"text\":\"hello\"}"
RawNull == "null"
RawNumber == "42"
RawBad == "{not json"

RawMsgs == {RawText, RawAudio, RawOther, RawNoType, RawNull, RawNumber, RawBad}

Obj(type, text, audioData) ==
    [kind |-> "object", type |-> type, text |-> text, audioData |-> audioData]

\* JSON.parse(event.data): a SyntaxError, or the parsed value.
JSONParse(data) ==
    CASE data = RawText       -> [threw |-> FALSE, value |-> Obj(Some("contentUpdateText"), Some("hello"), Undefined)]
      [] data = RawAudio      -> [threw |-> FALSE, value |-> Obj(Some("realtimeInput"), Undefined, Some("AAAA"))]
      [] data = RawOther      -> [threw |-> FALSE, value |-> Obj(Some("ping"), Some("hello"), Undefined)]
      [] data = RawNoType     -> [threw |-> FALSE, value |-> Obj(Undefined, Some("hello"), Undefined)]
      [] data = RawNull       -> [threw |-> FALSE, value |-> [kind |-> "null"]]
      [] data = RawNumber     -> [threw |-> FALSE, value |-> [kind |-> "number", type |-> Undefined]]
      [] OTHER                -> [threw |-> TRUE]

\* The calls on the session object.
sendClientContent(params) == [op |-> "sendClientContent", params |-> params]
sendRealtimeInput(params) == [op |-> "sendRealtimeInput", params |-> params]

\* A try block that leaves the text turn open.
TryRoute_partialTurn(data, sendThrows) ==
    LET p == JSONParse(data) IN
    IF p.threw THEN [calls |-> <<>>, thrown |-> TRUE]
    ELSE LET message == p.value IN
         IF message.kind = "null"
         THEN [calls |-> <<>>, thrown |-> TRUE]
         ELSE IF message.type = Some("contentUpdateText")
         THEN [calls |-> <<sendClientContent([turns |-> message.text, turnComplete |-> FALSE])>>,
               thrown |-> sendThrows]
         ELSE IF message.type = Some("realtimeInput")
         THEN [calls |-> <<sendRealtimeInput([media |-> createBlob(message.audioData)])>>,
               thrown |-> sendThrows]
         ELSE [calls |-> <<>>, thrown |-> FALSE]

\* A try block whose second branch is a plain else: every message that is
\* not a text turn is forwarded as realtime input.
TryRoute_elseRealtime(data, sendThrows) ==
    LET p == JSONParse(data) IN
    IF p.threw THEN [calls |-> <<>>, thrown |-> TRUE]
    ELSE LET message == p.value IN
         IF message.kind = "null"
         THEN [calls |-> <<>>, thrown |-> TRUE]
         ELSE IF message.type = Some("contentUpdateText")
         THEN [calls |-> <<sendClientContent([turns |-> message.text, turnComplete |-> TRUE])>>,
               thrown |-> sendThrows]
         ELSE [calls |-> <<sendRealtimeInput([media |-> createBlob(Undefined)])>>,
               thrown |-> sendThrows]

\* The try block of socket.onmessage: the calls it makes on the session and
\* whether it ends by throwing.  sendThrows: the session's send throws.
TryRoute(data, sendThrows) ==
    LET p == JSONParse(data) IN
    IF p.threw THEN [calls |-> <<>>, thrown |-> TRUE]
    ELSE LET message == p.value IN
         IF message.kind = "null"
         THEN [calls |-> <<>>, thrown |-> TRUE]   \* TypeError reading message.type
         ELSE IF message.type = Some("contentUpdateText")
         THEN [calls |-> <<sendClientContent([turns |-> message.text, turnComplete |-> TRUE])>>,
               thrown |-> sendThrows]
         ELSE IF message.type = Some("realtimeInput")
         THEN [calls |-> <<sendRealtimeInput([media |-> createBlob(message.audioData)])>>,
               thrown |-> sendThrows]
         ELSE [calls |-> <<>>, thrown |-> FALSE]

\* A catch block that logs and rethrows.
CatchRoute_rethrow(thrown) == [logged |-> thrown, escaped |-> thrown]

\* catch (error) { console.error(...) }: the error is logged and swallowed.
CatchRoute(thrown) == [logged |-> thrown, escaped |-> FALSE]

(***************************************************************************)
(* Upstream server messages and the guard of the onmessage callback.       *)
(***************************************************************************)
Inline(data) == [inlineData |-> Some([data |-> data])]
TextPart == [inlineData |-> Undefined]
WithParts(parts) == [serverContent |-> Some([modelTurn |-> Some([parts |-> parts])])]

ServerMsgs ==
    { [serverContent |-> Undefined],
      [serverContent |-> Some([modelTurn |-> Undefined])],
      WithParts(Undefined),
      WithParts(Some(<<>>)),
      WithParts(Some(<<TextPart>>)),
      WithParts(Some(<<Inline(Undefined)>>)),
      WithParts(Some(<<Inline(Some(""))>>)),
      WithParts(Some(<<TextPart, Inline(Some("X"))>>)),
      WithParts(Some(<<Inline(Some("X")), Inline(Some("Y"))>>)) }
    \cup { WithParts(Some(<<Inline(Some(p))>>)) : p \in Payloads }

\* A guard that tests inlineData.data for presence, not for truthiness.
AudioOf_noDataCheck(message) ==
    IF ~Present(message.serverContent) THEN Undefined
    ELSE LET sc == message.serverContent[1] IN
    IF ~Present(sc.modelTurn) THEN Undefined
    ELSE LET mt == sc.modelTurn[1] IN
    IF ~Present(mt.parts) THEN Undefined
    ELSE LET parts == mt.parts[1] IN
    IF ~(Len(parts) > 0) THEN Undefined
    ELSE IF ~Present(parts[1].inlineData) THEN Undefined
    ELSE parts[1].inlineData[1].data

\* A guard that looks for the first part carrying inline data.
AudioOf_firstInline(message) ==
    IF ~Present(message.serverContent) THEN Undefined
    ELSE LET sc == message.serverContent[1] IN
    IF ~Present(sc.modelTurn) THEN Undefined
    ELSE LET mt == sc.modelTurn[1] IN
    IF ~Present(mt.parts) THEN Undefined
    ELSE LET parts == mt.parts[1]
             found == {i \in 1..Len(parts) :
                          /\ Present(parts[i].inlineData)
                          /\ TruthyString(parts[i].inlineData[1].data)}
         IN IF found = {} THEN Undefined
            ELSE parts[CHOOSE i \in found : \A j \in found : i <= j].inlineData[1].data

\* The condition of the if statement, evaluated left to right with &&;
\* the result is Undefined when it is falsy, else Some(audioData).
AudioOf(message) ==
    IF ~Present(message.serverContent) THEN Undefined
    ELSE LET sc == message.serverContent[1] IN
    IF ~Present(sc.modelTurn) THEN Undefined
    ELSE LET mt == sc.modelTurn[1] IN
    IF ~Present(mt.parts) THEN Undefined
    ELSE LET parts == mt.parts[1] IN
    IF ~(Len(parts) > 0) THEN Undefined
    ELSE IF ~Present(parts[1].inlineData) THEN Undefined
    ELSE IF ~TruthyString(parts[1].inlineData[1].data) THEN Undefined
    ELSE parts[1].inlineData[1].data

\* A loop without the readyState test: send is called on every element.
RECURSIVE ForEachSend_noReadyCheck(_, _, _, _, _)
ForEachSend_noReadyCheck(cs, rs, text, fail, acc) ==
    IF cs = <<>> THEN acc
    ELSE LET client == Head(cs) IN
         IF client \in fail
         THEN [acc EXCEPT !.attempted = Append(@, client), !.threw = TRUE]
         ELSE ForEachSend_noReadyCheck(Tail(cs), rs, text, fail,
                  [acc EXCEPT !.attempted = Append(@, client),
                              !.inbox[client] = Append(@, text)])

\* A loop that sends the text twice to every OPEN element.
RECURSIVE ForEachSend_sendsTwice(_, _, _, _, _)
ForEachSend_sendsTwice(cs, rs, text, fail, acc) ==
    IF cs = <<>> THEN acc
    ELSE LET client == Head(cs) IN
         IF rs[client] = "OPEN"
         THEN IF client \in fail
              THEN [acc EXCEPT !.attempted = Append(@, client), !.threw = TRUE]
              ELSE ForEachSend_sendsTwice(Tail(cs), rs, text, fail,
                       [acc EXCEPT !.attempted = Append(Append(@, client), client),
                                   !.inbox[client] = Append(Append(@, text), text)])
         ELSE ForEachSend_sendsTwice(Tail(cs), rs, text, fail, acc)

\* A loop that stops after the first send.
RECURSIVE ForEachSend_firstOnly(_, _, _, _, _)
ForEachSend_firstOnly(cs, rs, text, fail, acc) ==
    IF cs = <<>> THEN acc
    ELSE LET client == Head(cs) IN
         IF rs[client] = "OPEN"
         THEN IF client \in fail
              THEN [acc EXCEPT !.attempted = Append(@, client), !.threw = TRUE]
              ELSE [acc EXCEPT !.attempted = Append(@, client),
                               !.inbox[client] = Append(@, text)]
         ELSE ForEachSend_firstOnly(Tail(cs), rs, text, fail, acc)

\* clients.forEach((client) => { if (client.readyState === OPEN) client.send(text) })
\* over the elements cs, in insertion order.  fail: the sockets whose send
\* throws; an exception leaves forEach at once.  acc collects the inboxes,
\* the sockets send was called on and whether the loop threw.
RECURSIVE ForEachSend(_, _, _, _, _)
ForEachSend(cs, rs, text, fail, acc) ==
    IF cs = <<>> THEN acc
    ELSE LET client == Head(cs) IN
         IF rs[client] = "OPEN"
         THEN IF client \in fail
              THEN [acc EXCEPT !.attempted = Append(@, client), !.threw = TRUE]
              ELSE ForEachSend(Tail(cs), rs, text, fail,
                       [acc EXCEPT !.attempted = Append(@, client),
                                   !.inbox[client] = Append(@, text)])
         ELSE ForEachSend(Tail(cs), rs, text, fail, acc)

(***************************************************************************)
(* Initial state: main() has built the empty Set and not yet connected.    *)
(***************************************************************************)
Init ==
    /\ pc = "connect"
    /\ session = "none"
    /\ nSessions = 0
    /\ clients = <<>>
    /\ readyState = [c \in Conn |-> "NONE"]
    /\ inbox = [c \in Conn |-> <<>>]
    /\ upstream = <<>>
    /\ registered = [c \in Conn |-> "none"]
    /\ event = [ev |-> "init"]

(***************************************************************************)
(* main(): await ai.live.connect(...), then Deno.serve(...).               *)
(***************************************************************************)
\* const session = await ai.live.connect({...}); onopen only logs.
main_connect ==
    /\ pc = "connect"
    /\ pc' = "serve"
    /\ session' = "open"
    /\ nSessions' = nSessions + 1
    /\ event' = [ev |-> "connect"]
    /\ UNCHANGED <<clients, readyState, inbox, upstream, registered>>

\* Deno.serve({port, handler}): from now on upgrade requests are accepted.
main_serve ==
    /\ pc = "serve"
    /\ pc' = "serving"
    /\ event' = [ev |-> "serve"]
    /\ UNCHANGED <<session, nSessions, clients, readyState, inbox, upstream, registered>>

(***************************************************************************)
(* The upstream session's callbacks.                                       *)
(***************************************************************************)
\* The outputs produced so far, counted against MaxIO.
RECURSIVE MaxLen(_, _)
MaxLen(f, S) ==
    IF S = {} THEN 0
    ELSE LET c == CHOOSE x \in S : TRUE
             r == MaxLen(f, S \ {c})
         IN IF Len(f[c]) > r THEN Len(f[c]) ELSE r

IOUsed == Len(upstream) + MaxLen(inbox, Conn)

\* The sockets the broadcast loop would call send on.
OpenMembers == {c \in Range(clients) : readyState[c] = "OPEN"}

\* A callback that broadcasts to every socket ever created, member or not.
onmessage_allSockets(message, fail) ==
    /\ session = "open"
    /\ LET audio == AudioOf(message) IN
       IF audio # Undefined
       THEN /\ fail \subseteq OpenMembers
            /\ LET audioData == audio[1]
                   r == ForEachSend(Sockets, readyState, Envelope(audioData), fail,
                                    [inbox |-> inbox, attempted |-> <<>>, threw |-> FALSE])
               IN /\ Len(upstream) + MaxLen(r.inbox, Conn) <= MaxIO
                  /\ inbox' = r.inbox
                  /\ event' = [ev |-> "upstreamMessage", message |-> message,
                               fail |-> fail, attempted |-> r.attempted,
                               threw |-> r.threw]
       ELSE /\ fail = {}
            /\ inbox' = inbox
            /\ event' = [ev |-> "upstreamMessage", message |-> message,
                         fail |-> {}, attempted |-> <<>>, threw |-> FALSE]
    /\ UNCHANGED <<pc, session, nSessions, clients, readyState, upstream, registered>>

\* onmessage: log, test the nested fields, broadcast to the clients.
\* fail: the sockets whose send throws during this broadcast.
onmessage(message, fail) ==
    /\ session = "open"
    /\ LET audio == AudioOf(message) IN
       IF audio # Undefined
       THEN /\ fail \subseteq OpenMembers
            /\ LET audioData == audio[1]
                   r == ForEachSend(clients, readyState, Envelope(audioData), fail,
                                    [inbox |-> inbox, attempted |-> <<>>, threw |-> FALSE])
               IN /\ Len(upstream) + MaxLen(r.inbox, Conn) <= MaxIO
                  /\ inbox' = r.inbox
                  /\ event' = [ev |-> "upstreamMessage", message |-> message,
                               fail |-> fail, attempted |-> r.attempted,
                               threw |-> r.threw]
       ELSE /\ fail = {}
            /\ inbox' = inbox
            /\ event' = [ev |-> "upstreamMessage", message |-> message,
                         fail |-> {}, attempted |-> <<>>, threw |-> FALSE]
    /\ UNCHANGED <<pc, session, nSessions, clients, readyState, upstream, registered>>

\* onerror: log only.
onerror ==
    /\ session = "open"
    /\ session' = "errored"
    /\ event' = [ev |-> "upstreamError"]
    /\ UNCHANGED <<pc, nSessions, clients, readyState, inbox, upstream, registered>>

\* A close callback that also empties the registry.
onclose_clearsClients ==
    /\ session \in {"open", "errored"}
    /\ session' = "closed"
    /\ clients' = <<>>
    /\ event' = [ev |-> "upstreamClose"]
    /\ UNCHANGED <<pc, nSessions, readyState, inbox, upstream, registered>>

\* A close callback that connects a new session.
onclose_reconnects ==
    /\ session \in {"open", "errored"}
    /\ session' = "open"
    /\ nSessions' = nSessions + 1
    /\ event' = [ev |-> "upstreamClose"]
    /\ UNCHANGED <<pc, clients, readyState, inbox, upstream, registered>>

\* onclose: log only.
onclose ==
    /\ session \in {"open", "errored"}
    /\ session' = "closed"
    /\ event' = [ev |-> "upstreamClose"]
    /\ UNCHANGED <<pc, nSessions, clients, readyState, inbox, upstream, registered>>

(***************************************************************************)
(* The Deno.serve handler and the handlers it installs on each socket.     *)
(***************************************************************************)
\* An upgrade request: Deno.upgradeWebSocket creates the next socket (still
\* CONNECTING), the handler adds it to clients and installs the callbacks.
upgrade(socket) ==
    /\ pc = "serving"
    /\ readyState[socket] = "NONE"
    /\ \A c \in Conn : IndexOf(c) < IndexOf(socket) => readyState[c] # "NONE"
    /\ readyState' = [readyState EXCEPT ![socket] = "CONNECTING"]
    /\ clients' = SetAdd(clients, socket)
    /\ registered' = [registered EXCEPT ![socket] = "add"]
    /\ event' = [ev |-> "upgrade", socket |-> socket]
    /\ UNCHANGED <<pc, session, nSessions, inbox, upstream>>

\* The transport moves a socket forward without running a handler of the
\* program: the handshake completes, or the closing handshake starts.
transport(socket) ==
    /\ \/ readyState[socket] = "CONNECTING" /\ readyState' = [readyState EXCEPT ![socket] = "OPEN"]
       \/ readyState[socket] = "OPEN" /\ readyState' = [readyState EXCEPT ![socket] = "CLOSING"]
    /\ event' = [ev |-> "transport"]
    /\ UNCHANGED <<pc, session, nSessions, clients, inbox, upstream, registered>>

\* A handler that puts its calls in front of the earlier ones.
socket_onmessage_prepends(socket, data, sendThrows) ==
    /\ readyState[socket] = "OPEN"
    /\ LET body == TryRoute(data, sendThrows)
           handled == CatchRoute(body.thrown)
       IN /\ (sendThrows => body.calls # <<>>)
          /\ IOUsed + Len(body.calls) <= MaxIO
          /\ upstream' = body.calls \o upstream
          /\ event' = [ev |-> "message", socket |-> socket, data |-> data,
                       logged |-> handled.logged, escaped |-> handled.escaped]
    /\ UNCHANGED <<pc, session, nSessions, clients, readyState, inbox, registered>>

\* A handler that routes only for sockets that are in the registry and
\* while the upstream session is open.
socket_onmessage_liveOnly(socket, data, sendThrows) ==
    /\ readyState[socket] = "OPEN"
    /\ LET live == SetHas(clients, socket) /\ session = "open"
           body == IF live THEN TryRoute(data, sendThrows)
                   ELSE [calls |-> <<>>, thrown |-> FALSE]
           handled == CatchRoute(body.thrown)
       IN /\ (sendThrows => body.calls # <<>>)
          /\ IOUsed + Len(body.calls) <= MaxIO
          /\ upstream' = upstream \o body.calls
          /\ event' = [ev |-> "message", socket |-> socket, data |-> data,
                       logged |-> handled.logged, escaped |-> handled.escaped]
    /\ UNCHANGED <<pc, session, nSessions, clients, readyState, inbox, registered>>

\* A handler that drops the socket from the registry when it logs an error.
socket_onmessage_dropsOnError(socket, data, sendThrows) ==
    /\ readyState[socket] = "OPEN"
    /\ LET body == TryRoute(data, sendThrows)
           handled == CatchRoute(body.thrown)
       IN /\ (sendThrows => body.calls # <<>>)
          /\ IOUsed + Len(body.calls) <= MaxIO
          /\ upstream' = upstream \o body.calls
          /\ clients' = IF handled.logged THEN SetDelete(clients, socket) ELSE clients
          /\ event' = [ev |-> "message", socket |-> socket, data |-> data,
                       logged |-> handled.logged, escaped |-> handled.escaped]
    /\ UNCHANGED <<pc, session, nSessions, readyState, inbox, registered>>

\* socket.onmessage = (event) => { try { ... } catch (error) { ... } }
socket_onmessage(socket, data, sendThrows) ==
    /\ readyState[socket] = "OPEN"
    /\ LET body == TryRoute(data, sendThrows)
           handled == CatchRoute(body.thrown)
       IN /\ (sendThrows => body.calls # <<>>)
          /\ IOUsed + Len(body.calls) <= MaxIO
          /\ upstream' = upstream \o body.calls
          /\ event' = [ev |-> "message", socket |-> socket, data |-> data,
                       logged |-> handled.logged, escaped |-> handled.escaped]
    /\ UNCHANGED <<pc, session, nSessions, clients, readyState, inbox, registered>>

\* socket.onclose: the transport has set the socket CLOSED; log and delete.
socket_onclose(socket) ==
    /\ readyState[socket] # "NONE"
    /\ readyState' = [readyState EXCEPT ![socket] = "CLOSED"]
    /\ clients' = SetDelete(clients, socket)
    /\ registered' = [registered EXCEPT ![socket] = "remove"]
    /\ event' = [ev |-> "close", socket |-> socket]
    /\ UNCHANGED <<pc, session, nSessions, inbox, upstream>>

\* An error handler that logs but forgets to delete.
socket_onerror_logOnly(socket) ==
    /\ readyState[socket] # "NONE"
    /\ registered' = [registered EXCEPT ![socket] = "remove"]
    /\ event' = [ev |-> "error", socket |-> socket]
    /\ UNCHANGED <<pc, session, nSessions, clients, readyState, inbox, upstream>>

\* socket.onerror: log and delete; the readiness is the transport's.
socket_onerror(socket) ==
    /\ readyState[socket] # "NONE"
    /\ clients' = SetDelete(clients, socket)
    /\ registered' = [registered EXCEPT ![socket] = "remove"]
    /\ event' = [ev |-> "error", socket |-> socket]
    /\ UNCHANGED <<pc, session, nSessions, readyState, inbox, upstream>>

Next ==
    \/ main_connect
    \/ main_serve
    \/ \E message \in ServerMsgs, fail \in SUBSET Conn : onmessage(message, fail)
    \/ onerror
    \/ onclose
    \/ \E socket \in Conn : upgrade(socket)
    \/ \E socket \in Conn : transport(socket)
    \/ \E socket \in Conn, data \in RawMsgs, sendThrows \in BOOLEAN :
           socket_onmessage(socket, data, sendThrows)
    \/ \E socket \in Conn : socket_onclose(socket)
    \/ \E socket \in Conn : socket_onerror(socket)

Spec == Init /\ [][Next]_vars

(***************************************************************************)
(* Vocabulary of the properties.                                           *)
(***************************************************************************)
\* The step just taken is the upstream onmessage callback with a payload.
BroadcastStep ==
    /\ event'.ev = "upstreamMessage"
    /\ AudioOf(event'.message) # Undefined

\* In this step socket c is sent exactly the envelope of the payload / nothing.
Receives(c) == inbox'[c] = Append(inbox[c], Envelope(AudioOf(event'.message)[1]))
ReceivesNothing(c) == inbox'[c] = inbox[c]

Other(c) == CHOOSE d \in Conn : d # c

(***************************************************************************)
(* C1.  After any sequence of connection events the registry holds exactly *)
(* the sockets that were added and not removed since; no socket is held    *)
(* twice; adding a member again or removing a non-member changes nothing.  *)
(***************************************************************************)
C1_LiveSetIsAddedNotRemoved ==
    /\ Range(clients) = {c \in Conn : registered[c] = "add"}
    /\ Len(clients) = Cardinality(Range(clients))
    /\ \A c \in Conn : SetHas(clients, c) => SetAdd(clients, c) = clients
    /\ \A c \in Conn : ~SetHas(clients, c) => SetDelete(clients, c) = clients

\* A second remove of A (error after close) while B is still a member.
C1_Witness ==
    /\ event.ev = "error"
    /\ readyState[event.socket] = "CLOSED"
    /\ clients # <<>>

(***************************************************************************)
(* C2.  A broadcast in which the send to exactly one socket throws still   *)
(* delivers the envelope to every other OPEN member.                       *)
(***************************************************************************)
C2_FailureIsolation ==
    [][(BroadcastStep /\ Cardinality(event'.fail) = 1)
          => \A c \in OpenMembers \ event'.fail : Receives(c)]_vars

(***************************************************************************)
(* C3.  A broadcast calls send, with the same envelope, on exactly the     *)
(* sockets that are members and OPEN when it begins: each of them whose    *)
(* own send does not throw receives it, and no other socket receives       *)
(* anything.                                                               *)
(***************************************************************************)
C3_BroadcastToOpenMembers ==
    [][BroadcastStep
          => /\ Range(event'.attempted) = OpenMembers
             /\ \A c \in Conn :
                    IF c \in OpenMembers \ event'.fail
                    THEN Receives(c) ELSE ReceivesNothing(c)]_vars

(***************************************************************************)
(* C4.  End to end, with sends that succeed: a payload arriving while both *)
(* sockets are OPEN members is received by both; once a socket has had its *)
(* close event, a later payload is received by the other socket only, and  *)
(* the closed socket never receives anything again.                        *)
(***************************************************************************)
C4_EndToEnd ==
    [][/\ (BroadcastStep /\ event'.fail = {} /\ OpenMembers = Conn)
            => \A c \in Conn : Receives(c)
       /\ \A a \in Conn :
            (BroadcastStep /\ event'.fail = {} /\ readyState[a] = "CLOSED"
                 /\ Other(a) \in OpenMembers)
               => Receives(Other(a)) /\ ReceivesNothing(a)
       /\ \A a \in Conn : readyState[a] = "CLOSED" => ReceivesNothing(a)]_vars

\* A and B both got X; A closed; B alone got Y.
C4_Witness ==
    /\ inbox["A"] = <<Envelope("X")>>
    /\ inbox["B"] = <<Envelope("X"), Envelope("Y")>>
    /\ readyState["A"] = "CLOSED"
    /\ event.ev = "upstreamMessage"

(***************************************************************************)
(* C5.  Right after a close event or an error event of a socket, that      *)
(* socket is not a member of the registry, whatever came before.           *)
(***************************************************************************)
C5_TerminalEventRemoves ==
    event.ev \in {"close", "error"} => ~SetHas(clients, event.socket)

\* An error event on a socket that is still OPEN, the other still a member.
C5_Witness ==
    /\ event.ev = "error"
    /\ readyState[event.socket] = "OPEN"
    /\ SetHas(clients, Other(event.socket))

\* The step just taken is socket.onmessage.
RouteStep == event'.ev = "message"

\* The raw text decodes (JSON.parse returns); its value; the value's type
\* property, Undefined when there is none to read.
Decodable(data) == ~JSONParse(data).threw
Decoded(data) == JSONParse(data).value
TypeField(data) ==
    IF Decoded(data).kind = "null" THEN Undefined ELSE Decoded(data).type
Recognized(data) ==
    /\ Decodable(data)
    /\ TypeField(data) \in {Some("contentUpdateText"), Some("realtimeInput")}

TextTurnCall(text) ==
    [op |-> "sendClientContent", params |-> [turns |-> text, turnComplete |-> TRUE]]
RealtimeCall(audioData) ==
    [op |-> "sendRealtimeInput",
     params |-> [media |-> [data |-> audioData, mimeType |-> "audio/pcm;rate=16000"]]]

(***************************************************************************)
(* C6.  Routing a decodable message of type contentUpdateText with text t  *)
(* makes exactly one call on the session, a text turn carrying t and       *)
(* marked complete, and no realtime call.                                  *)
(***************************************************************************)
C6_TextTurnRouted ==
    [][(RouteStep /\ Decodable(event'.data)
          /\ TypeField(event'.data) = Some("contentUpdateText"))
          => upstream' = Append(upstream, TextTurnCall(Decoded(event'.data).text))]_vars

\* The first call ever made is the text turn "hello".
C6_Witness ==
    /\ event.ev = "message"
    /\ event.data = RawText
    /\ upstream = <<TextTurnCall(Some("hello"))>>

(***************************************************************************)
(* C7.  Routing a decodable message of type realtimeInput with audioData d *)
(* makes exactly one call on the session, a realtime input carrying d with *)
(* the fixed descriptor audio/pcm;rate=16000, and no text turn.            *)
(***************************************************************************)
C7_RealtimeRouted ==
    [][(RouteStep /\ Decodable(event'.data)
          /\ TypeField(event'.data) = Some("realtimeInput"))
          => upstream' = Append(upstream, RealtimeCall(Decoded(event'.data).audioData))]_vars

\* A realtime chunk routed after a text turn.
C7_Witness ==
    /\ event.ev = "message"
    /\ event.data = RawAudio
    /\ upstream = <<TextTurnCall(Some("hello")), RealtimeCall(Some("AAAA"))>>

(***************************************************************************)
(* C8.  Routing a text that does not parse makes no call on the session,   *)
(* lets no exception out of the handler and leaves the socket OPEN; the    *)
(* next message of the same socket is routed as usual.                     *)
(***************************************************************************)
C8_UnparseableDropped ==
    [][/\ (RouteStep /\ ~Decodable(event'.data))
            => /\ upstream' = upstream
               /\ ~event'.escaped
               /\ readyState'[event'.socket] = "OPEN"
       /\ (/\ event.ev = "message" /\ ~Decodable(event.data)
           /\ RouteStep /\ event'.socket = event.socket
           /\ event'.data = RawText)
            => upstream' = Append(upstream, TextTurnCall(Some("hello")))]_vars

\* An unparseable text routed after a call was made.
C8_Witness ==
    /\ event.ev = "message"
    /\ event.data = RawBad
    /\ event.logged
    /\ upstream # <<>>

(***************************************************************************)
(* C9.  Routing a decodable message whose type is missing or is neither    *)
(* contentUpdateText nor realtimeInput makes no call on the session and    *)
(* reports no error.                                                       *)
(***************************************************************************)
C9_UnrecognizedSilentlyIgnored ==
    [][(RouteStep /\ Decodable(event'.data) /\ ~Recognized(event'.data))
          => /\ upstream' = upstream
             /\ ~event'.logged
             /\ ~event'.escaped]_vars

\* C9 as amended: the same for a message that decodes to a value other
\* than null.
C9_NonNullUnrecognizedIgnored ==
    [][(RouteStep /\ Decodable(event'.data) /\ ~Recognized(event'.data)
          /\ Decoded(event'.data).kind # "null")
          => /\ upstream' = upstream
             /\ ~event'.logged
             /\ ~event'.escaped]_vars

\* A message without a type property ignored after a call was made.
C9_Witness ==
    /\ event.ev = "message"
    /\ event.data = RawNoType
    /\ ~event.logged
    /\ upstream # <<>>

(***************************************************************************)
(* C10.  Routing a message, whatever it is and whether or not the call on  *)
(* the session throws, changes neither the registry nor any readyState and *)
(* sends nothing to any client.                                            *)
(***************************************************************************)
C10_RouteFrame ==
    [][RouteStep => /\ clients' = clients
                    /\ readyState' = readyState
                    /\ inbox' = inbox]_vars

\* A text turn whose call threw, with both sockets members and a broadcast
\* already delivered to the sender.
C10_Witness ==
    /\ event.ev = "message"
    /\ event.data = RawText
    /\ event.logged
    /\ Len(clients) = 2
    /\ inbox[event.socket] # <<>>

C12_OneSession ==
    /\ nSessions <= 1
    /\ (nSessions = 0) = (session = "none")
    /\ nSessions = 0 =>
          /\ clients = <<>>
          /\ \A c \in Conn : readyState[c] = "NONE" /\ inbox[c] = <<>>
          /\ upstream = <<>>
          /\ event.ev \in {"init"}
    /\ pc = "serving" => nSessions = 1
    /\ event.ev \in {"message", "upgrade", "upstreamMessage"} => nSessions = 1

\* A message routed to the one session after that session has closed.
C12_Witness ==
    /\ event.ev = "message"
    /\ session = "closed"
    /\ upstream # <<>>
    /\ nSessions = 1

\* The step just taken is the upstream onmessage callback.
UpstreamStep == event'.ev = "upstreamMessage"

\* The content parts of a server message (none when a field on the way is
\* absent), and the non-empty inline payload of one part, if it has one.
PartsOf(message) ==
    IF message.serverContent = Undefined THEN <<>>
    ELSE IF message.serverContent[1].modelTurn = Undefined THEN <<>>
    ELSE IF message.serverContent[1].modelTurn[1].parts = Undefined THEN <<>>
    ELSE message.serverContent[1].modelTurn[1].parts[1]

PartPayload(part) ==
    IF part.inlineData = Undefined THEN Undefined
    ELSE IF part.inlineData[1].data \in {Undefined, Some("")} THEN Undefined
    ELSE part.inlineData[1].data

\* The first inline payload found among all parts / the one of part 0.
FirstInlinePayload(message) ==
    LET ps == PartsOf(message)
        found == {i \in 1..Len(ps) : PartPayload(ps[i]) # Undefined}
    IN IF found = {} THEN Undefined
       ELSE PartPayload(ps[CHOOSE i \in found : \A j \in found : i <= j])

PartZeroPayload(message) ==
    IF PartsOf(message) = <<>> THEN Undefined ELSE PartPayload(PartsOf(message)[1])

\* The step hands payload p to the broadcast (every OPEN member receives its
\* envelope when no send throws, and nothing else is sent), or, when p is
\* Undefined, does nothing at all.
Dispatches(p) ==
    IF p = Undefined
    THEN inbox' = inbox /\ event'.attempted = <<>> /\ ~event'.threw
    ELSE /\ \A c \in Conn : inbox'[c] \in {inbox[c], Append(inbox[c], Envelope(p[1]))}
         /\ event'.fail = {} =>
               \A c \in OpenMembers : inbox'[c] = Append(inbox[c], Envelope(p[1]))

(***************************************************************************)
(* C13.  The upstream onmessage callback hands the first inline payload    *)
(* found among the model turn's parts to the broadcast; when there is none *)
(* (no content, no turn, no parts, no inline data) it sends nothing, leaves *)
(* the registry alone and raises no error.                                 *)
(***************************************************************************)
C13_FirstInlinePayloadBroadcast ==
    [][UpstreamStep => /\ Dispatches(FirstInlinePayload(event'.message))
                       /\ clients' = clients]_vars

\* C13 as amended: the payload handed over is the non-empty inline payload
\* of the first part, parts[0]; a message without one is a no-op.
C13_PartZeroPayloadBroadcast ==
    [][UpstreamStep => /\ Dispatches(PartZeroPayload(event'.message))
                       /\ clients' = clients]_vars

\* A turn with two inline parts, X then Y: both OPEN members got X alone.
C13_Witness ==
    /\ event.ev = "upstreamMessage"
    /\ event.message = WithParts(Some(<<Inline(Some("X")), Inline(Some("Y"))>>))
    /\ \A c \in Conn : inbox[c] = <<Envelope("X")>>

(***************************************************************************)
(* C14.  A broadcast calls send on OPEN sockets only and sends nothing to  *)
(* a member that is not OPEN; it leaves the registry as it is.  A socket   *)
(* leaves the registry only by its own close or error event.               *)
(***************************************************************************)
C14_NonOpenSkippedNotRemoved ==
    [][/\ UpstreamStep
            => /\ clients' = clients
               /\ Range(event'.attempted) \subseteq OpenMembers
               /\ \A c \in Conn \ OpenMembers : inbox'[c] = inbox[c]
       /\ \A c \in Conn :
            (SetHas(clients, c) /\ ~SetHas(clients', c))
               => event'.ev \in {"close", "error"} /\ event'.socket = c]_vars

\* A broadcast that reached one socket while the other, CLOSING, was skipped
\* and is still a member.
C14_Witness ==
    /\ event.ev = "upstreamMessage"
    /\ event.attempted # <<>>
    /\ \E c \in Conn : /\ readyState[c] = "CLOSING"
                       /\ SetHas(clients, c)
                       /\ inbox[c] = <<>>
                       /\ inbox[Other(c)] # <<>>

(***************************************************************************)
(* C15.  One upstream message sends at most one text to each socket: send  *)
(* is called at most once per socket, whatever close and error events the  *)
(* socket has had, and the registry never holds a socket twice.            *)
(***************************************************************************)
C15_AtMostOncePerSocket ==
    [][UpstreamStep
          => /\ \A c \in Conn : Len(inbox'[c]) <= Len(inbox[c]) + 1
             /\ \A i, j \in 1..Len(event'.attempted) :
                    event'.attempted[i] = event'.attempted[j] => i = j
             /\ \A i, j \in 1..Len(clients) : clients[i] = clients[j] => i = j]_vars

\* A second broadcast delivered to a socket whose peer has had an error
\* event and then a close event.
C15_Witness ==
    /\ event.ev = "upstreamMessage"
    /\ \E c \in Conn : /\ Len(inbox[c]) = 2
                       /\ readyState[Other(c)] = "CLOSED"
                       /\ registered[Other(c)] = "remove"

\* The calls a delivered message is to cause: one for a recognized message,
\* none for a dropped one.
CallsFor(data) ==
    IF ~Recognized(data) THEN <<>>
    ELSE IF TypeField(data) = Some("contentUpdateText")
    THEN <<TextTurnCall(Decoded(data).text)>>
    ELSE <<RealtimeCall(Decoded(data).audioData)>>

(***************************************************************************)
(* C16.  The calls on the session are, in order, those of the recognized   *)
(* messages in the order they were delivered: every routing step puts the  *)
(* calls of its message after all earlier ones, a dropped message adds     *)
(* nothing, and no other step changes the list of calls.                   *)
(***************************************************************************)
C16_CallsInDeliveryOrder ==
    [][/\ RouteStep => upstream' = upstream \o CallsFor(event'.data)
       /\ ~RouteStep => upstream' = upstream]_vars

\* A realtime chunk and then a text turn, delivered in that order by one
\* socket while the other socket never was OPEN.
C16_Witness ==
    /\ event.ev = "message"
    /\ event.data = RawText
    /\ upstream = <<RealtimeCall(Some("AAAA")), TextTurnCall(Some("hello"))>>
    /\ readyState[Other(event.socket)] \in {"NONE", "CONNECTING"}

(***************************************************************************)
(* C17.  A socket that was removed from the registry is never a member     *)
(* again and is never sent anything again, even while it is still OPEN.    *)
(***************************************************************************)
C17_RemovedStaysOut ==
    [][\A c \in Conn :
          registered[c] = "remove"
             => /\ ~SetHas(clients', c)
                /\ registered'[c] = "remove"
                /\ inbox'[c] = inbox[c]]_vars

\* A broadcast reached the other socket while this one, removed by an error
\* event and still OPEN, got nothing.
C17_Witness ==
    /\ event.ev = "upstreamMessage"
    /\ \E c \in Conn : /\ registered[c] = "remove"
                       /\ readyState[c] = "OPEN"
                       /\ inbox[c] = <<>>
                       /\ inbox[Other(c)] # <<>>

(***************************************************************************)
(* C18.  A recognized message is routed whether or not its socket is in    *)
(* the registry and whether or not the upstream session has errored or     *)
(* closed: the step makes exactly one call on the session.                 *)
(***************************************************************************)
C18_RouteIgnoresMembershipAndLifecycle ==
    [][(/\ RouteStep
        /\ Recognized(event'.data)
        /\ \/ ~SetHas(clients, event'.socket)
           \/ session \in {"errored", "closed"})
          => /\ Len(upstream') = Len(upstream) + 1
             /\ SubSeq(upstream', 1, Len(upstream)) = upstream
             /\ upstream'[Len(upstream')].op \in {"sendClientContent", "sendRealtimeInput"}]_vars

\* A recognized message from a socket that an error event removed, routed
\* after the session closed.
C18_Witness ==
    /\ event.ev = "message"
    /\ Recognized(event.data)
    /\ ~SetHas(clients, event.socket)
    /\ session = "closed"
    /\ Len(upstream) = 1

(***************************************************************************)
(* C19.  One upstream message causes at most one broadcast and only part 0 *)
(* decides it: send is called only if part 0 carries non-empty inline      *)
(* data, it is called whenever that is so and a member is OPEN, whatever   *)
(* is sent is the envelope of exactly that value, and two messages with    *)
(* the same part 0 have the same effect.                                   *)
(***************************************************************************)
C19_OnlyPartZero ==
    [][UpstreamStep
          => LET p == PartZeroPayload(event'.message) IN
             /\ event'.attempted # <<>> => p # Undefined
             /\ (p # Undefined /\ OpenMembers # {}) => event'.attempted # <<>>
             /\ \A c \in Conn :
                    inbox'[c] # inbox[c]
                       => p # Undefined /\ inbox'[c] = Append(inbox[c], Envelope(p[1]))
             /\ event'.message \in
                    { WithParts(Some(<<TextPart, Inline(Some("X"))>>)),
                      WithParts(Some(<<Inline(Some(""))>>)) }
                   => inbox' = inbox /\ event'.attempted = <<>>]_vars

\* A turn whose second part alone carries inline data arrived while both
\* sockets were OPEN members: nothing was sent.
C19_Witness ==
    /\ event.ev = "upstreamMessage"
    /\ event.message = WithParts(Some(<<TextPart, Inline(Some("X"))>>))
    /\ OpenMembers = Conn
    /\ \A c \in Conn : inbox[c] = <<>>

====
